---- MODULE Spec2Model ----
(***************************************************************************)
(* Team formation and membership consistency of the game team system       *)
(* (src/app.py): the roster table st.session_state.players, the registry   *)
(* st.session_state.teams, the two files kept on GitHub, and the handlers  *)
(* that change them: create_team, the main page's submit button, and the   *)
(* admin panel's add / save / reset / disband buttons.                     *)
(***************************************************************************)
EXTENDS Integers, Sequences, FiniteSets, TLC

VARIABLES
    players,    \* st.session_state.players: rows [id, class, selected]
    teams,      \* st.session_state.teams: list of [captain, members]
    ghPlayers,  \* data/players.csv as last written to GitHub
    ghTeams,    \* data/teams.json as last written to GitHub
    lastOp,     \* the handler that ran last: its inputs, return value, message
    pre,        \* players, teams and the two files as they were before it ran
    failures    \* how many flushes to GitHub have failed so far

vars == <<players, teams, ghPlayers, ghTeams, lastOp, pre, failures>>

----------------------------------------------------------------------------
(* Bounds of the model and constants of the program *)

\* if len(team_members) != 6
TeamSize == 6

\* rows of the roster the registry-level specification starts from
RosterSize == 12

\* ids that exist in no roster (P13, ...), for unknown-player submissions
NumUnknown == 1

\* the admin adds rows up to this roster length
MaxPlayers == 6

\* GitHub fails at most this many flushes in one session
MaxFailures == 1

PlayerId(i) == "P" \o ToString(i)

GAME_CLASSES ==
    {"DaLi", "EMei", "GaiBang", "MingJiao", "TianShan",
     "WuChen", "WuDang", "XiaoYao", "XingXiu", "XuanJi"}

\* the classes the admin picks in the model
ClassInputs == {"DaLi"}

Range(s) == {s[i] : i \in DOMAIN s}

----------------------------------------------------------------------------
(* GitHub persistence *)

\* what the two PUT requests of one flush do: both succeed, the first fails,
\* or the first succeeds and the second fails
SaveOutcomes == {"ok", "fail_players", "fail_teams"}

\* the outcomes still possible for the next flush
NetOutcomes == IF failures < MaxFailures THEN SaveOutcomes ELSE {"ok"}

\* save_data_to_github: players.csv first, then teams.json; stops at the
\* first file update_github_file fails on
save_data_to_github(p, t, ghP, ghT, net) ==
    IF net = "fail_players"
    THEN [ok |-> FALSE, ghPlayers |-> ghP, ghTeams |-> ghT]
    ELSE IF net = "fail_teams"
    THEN [ok |-> FALSE, ghPlayers |-> p, ghTeams |-> ghT]
    ELSE [ok |-> TRUE, ghPlayers |-> p, ghTeams |-> t]

----------------------------------------------------------------------------
(* Roster and registry helpers *)

\* member in st.session_state.players['游戏ID'].values
HasId(p, id) == \E i \in DOMAIN p : p[i].id = id

\* MissingAt without the existence loop: every member passes
MissingAt_None(p, team_members) == {}

\* the members the existence loop rejects, in list order
MissingAt(p, team_members) ==
    {k \in DOMAIN team_members : ~HasId(p, team_members[k])}

Min(S) == CHOOSE x \in S : \A y \in S : x <= y

\* {m for team in teams for m in team['成员']}
SelectedPlayers(t) == UNION {Range(t[k].members) : k \in DOMAIN t}

\* AnySelected with the check against the existing teams left out
AnySelected_Never(t, team_members) == FALSE

\* any(m in selected_players for m in team_members)
AnySelected(t, team_members) ==
    \E k \in DOMAIN team_members : team_members[k] \in SelectedPlayers(t)

\* SetSelected with the mask left out: the flag is written to every row
SetSelected_AllRows(p, ids, v) ==
    [i \in DOMAIN p |-> [p[i] EXCEPT !.selected = v]]

\* SetSelected writing True whatever the value asked for
SetSelected_AlwaysTrue(p, ids, v) ==
    [i \in DOMAIN p |->
        IF p[i].id \in ids THEN [p[i] EXCEPT !.selected = TRUE] ELSE p[i]]

\* mask = players['游戏ID'].isin(ids); players.loc[mask, '已选择'] = v
SetSelected(p, ids, v) ==
    [i \in DOMAIN p |->
        IF p[i].id \in ids THEN [p[i] EXCEPT !.selected = v] ELSE p[i]]

\* PopTeam as teams.pop(): the last team goes, whatever i is
PopTeam_Last(t, i) == SubSeq(t, 1, Len(t) - 1)

\* teams.pop(i-1), i counted from 1
PopTeam(t, i) ==
    [k \in 1..(Len(t) - 1) |-> IF k < i THEN t[k] ELSE t[k + 1]]

NoTeam == [captain |-> "", members |-> <<>>]

Op(op, members, captain, index, removed, result, error, badId, flush) ==
    [op |-> op, members |-> members, captain |-> captain, index |-> index,
     removed |-> removed, result |-> result, error |-> error,
     badId |-> badId, flush |-> flush]

Snapshot == [players |-> players, teams |-> teams,
             ghPlayers |-> ghPlayers, ghTeams |-> ghTeams]

----------------------------------------------------------------------------
(* create_team *)

Outcome(p, t, ghP, ghT, result, error, badId, flush) ==
    [players |-> p, teams |-> t, ghPlayers |-> ghP, ghTeams |-> ghT,
     result |-> result, error |-> error, badId |-> badId, flush |-> flush]

\* create_team with the already-selected check moved before the existence loop
create_team_DisjointFirst(p, t, ghP, ghT, team_members, captain, net) ==
    IF Len(team_members) # TeamSize
    THEN Outcome(p, t, ghP, ghT, FALSE, "size", "", "none")
    ELSE IF AnySelected(t, team_members)
    THEN Outcome(p, t, ghP, ghT, FALSE, "assigned", "", "none")
    ELSE IF MissingAt(p, team_members) # {}
    THEN Outcome(p, t, ghP, ghT, FALSE, "unknown",
                 team_members[Min(MissingAt(p, team_members))], "none")
    ELSE
        LET t2 == Append(t, [captain |-> captain, members |-> team_members])
            p2 == SetSelected(p, Range(team_members), TRUE)
            s  == save_data_to_github(p2, t2, ghP, ghT, net)
        IN  Outcome(p2, t2, s.ghPlayers, s.ghTeams, s.ok, "", "", net)

\* def create_team(team_members, captain) -> bool
create_team(p, t, ghP, ghT, team_members, captain, net) ==
    IF Len(team_members) # TeamSize
    THEN Outcome(p, t, ghP, ghT, FALSE, "size", "", "none")
    ELSE IF MissingAt(p, team_members) # {}
    THEN Outcome(p, t, ghP, ghT, FALSE, "unknown",
                 team_members[Min(MissingAt(p, team_members))], "none")
    ELSE IF AnySelected(t, team_members)
    THEN Outcome(p, t, ghP, ghT, FALSE, "assigned", "", "none")
    ELSE
        LET t2 == Append(t, [captain |-> captain, members |-> team_members])
            p2 == SetSelected(p, Range(team_members), TRUE)
            s  == save_data_to_github(p2, t2, ghP, ghT, net)
        IN  Outcome(p2, t2, s.ghPlayers, s.ghTeams, s.ok, "", "", net)

Apply(r, op) ==
    /\ players' = r.players
    /\ teams' = r.teams
    /\ ghPlayers' = r.ghPlayers
    /\ ghTeams' = r.ghTeams
    /\ lastOp' = op
    /\ pre' = Snapshot
    /\ failures' = IF op.flush \in {"fail_players", "fail_teams"}
                   THEN failures + 1 ELSE failures

----------------------------------------------------------------------------
(* Registry-level specification: create_team called with any arguments,   *)
(* and the disband button                                                  *)

InitialRoster(n) ==
    [i \in 1..n |-> [id |-> PlayerId(i), class |-> "DaLi", selected |-> FALSE]]

AllIds == [i \in 1..(RosterSize + NumUnknown) |-> PlayerId(i)]

\* n consecutive ids from the a-th on (fewer at the end of the list)
Window(a, n) ==
    SubSeq(AllIds, a, IF a + n - 1 > Len(AllIds) THEN Len(AllIds) ELSE a + n - 1)

\* where the submitted runs of ids start: the first id, the second, the first
\* id after one full team, and the last start whose full team ends on an
\* unknown id
Starts == {1, 2, TeamSize + 1, RosterSize - TeamSize + 2}

\* the member lists submitted: runs of consecutive ids of TeamSize-1 to
\* TeamSize+1 members, and a run of TeamSize whose last member repeats the first
Submissions ==
    {Window(a, n) : a \in Starts, n \in (TeamSize - 1)..(TeamSize + 1)}
    \cup {Append(Window(1, TeamSize - 1), AllIds[1])}

FormTeam ==
    \E team_members \in Submissions, net \in NetOutcomes :
        /\ Len(team_members) >= 1
        /\ LET captain == team_members[1]
               r == create_team(players, teams, ghPlayers, ghTeams,
                                team_members, captain, net)
           IN  Apply(r, Op("create", team_members, captain, 0, NoTeam,
                           r.result, r.error, r.badId, r.flush))

DisbandTeam ==
    \E i \in 1..Len(teams), net \in NetOutcomes :
        LET team == teams[i]
            p2 == SetSelected(players, Range(team.members), FALSE)
            t2 == PopTeam(teams, i)
            s  == save_data_to_github(p2, t2, ghPlayers, ghTeams, net)
        IN  Apply([players |-> p2, teams |-> t2,
                   ghPlayers |-> s.ghPlayers, ghTeams |-> s.ghTeams],
                  Op("disband", <<>>, "", i, team, s.ok, "", "", net))

NoOp == Op("init", <<>>, "", 0, NoTeam, TRUE, "", "", "none")

InitRegistry ==
    /\ players = InitialRoster(RosterSize)
    /\ teams = <<>>
    /\ ghPlayers = players
    /\ ghTeams = <<>>
    /\ lastOp = NoOp
    /\ pre = Snapshot
    /\ failures = 0

NextRegistry == FormTeam \/ DisbandTeam

SpecRegistry == InitRegistry /\ [][NextRegistry]_vars

----------------------------------------------------------------------------
(* Application-level specification: the buttons of the main page and of    *)
(* the admin panel, from an empty repository                               *)

\* the ids the admin types: nothing, the next unused number, or the first id
\* again
AddIds(p) == {"", PlayerId(Len(p) + 1), PlayerId(1)}

\* the "添加" button
AddPlayer ==
    \E new_id \in AddIds(players), new_class \in ClassInputs, net \in NetOutcomes :
        /\ Len(players) < MaxPlayers
        /\ IF new_id # ""
           THEN LET p2 == Append(players, [id |-> new_id, class |-> new_class,
                                           selected |-> FALSE])
                    s  == save_data_to_github(p2, teams, ghPlayers, ghTeams, net)
                IN  Apply([players |-> p2, teams |-> teams,
                           ghPlayers |-> s.ghPlayers, ghTeams |-> s.ghTeams],
                          Op("add", <<new_id>>, "", 0, NoTeam, s.ok, "", "", net))
           ELSE Apply(Snapshot,
                      Op("add", <<new_id>>, "", 0, NoTeam, FALSE, "", "", "none"))

RemoveRow(p, i) ==
    [k \in 1..(Len(p) - 1) |-> IF k < i THEN p[k] ELSE p[k + 1]]

\* what the data editor hands back: the table as it is, or with its last row
\* removed
EditedTables(p) == {p} \cup {RemoveRow(p, i) : i \in {Len(p)} \cap DOMAIN p}

\* the "保存修改" button
SaveEdit ==
    \E edited_df \in EditedTables(players), net \in NetOutcomes :
        LET s == save_data_to_github(edited_df, teams, ghPlayers, ghTeams, net)
        IN  Apply([players |-> edited_df, teams |-> teams,
                   ghPlayers |-> s.ghPlayers, ghTeams |-> s.ghTeams],
                  Op("save", <<>>, "", 0, NoTeam, s.ok, "", "", net))

\* the "重置选择状态" button
ResetSelection ==
    \E net \in NetOutcomes :
        LET p2 == [i \in DOMAIN players |-> [players[i] EXCEPT !.selected = FALSE]]
            s  == save_data_to_github(p2, teams, ghPlayers, ghTeams, net)
        IN  Apply([players |-> p2, teams |-> teams,
                   ghPlayers |-> s.ghPlayers, ghTeams |-> s.ghTeams],
                  Op("reset", <<>>, "", 0, NoTeam, s.ok, "", "", net))

\* the ids of a selection widget's options, each value once, in table order
RECURSIVE Options(_, _, _)
Options(p, captain, i) ==
    IF i > Len(p) THEN <<>>
    ELSE LET rest == Options(p, captain, i + 1)
         IN  IF /\ ~p[i].selected
                /\ p[i].id # captain
                /\ \A k \in 1..(i - 1) : p[k].selected \/ p[k].id # p[i].id
             THEN <<p[i].id>> \o rest
             ELSE rest

\* options of the captain select box: players[~players['已选择']]['游戏ID']
CaptainOptions(p) == Range(Options(p, "", 1))

\* what the select box returns: one of its options, or None (written "")
\* when it has none
CaptainChoices(p) == IF CaptainOptions(p) = {} THEN {""} ELSE CaptainOptions(p)

\* options of the member multiselect: unselected rows whose id is not the captain
Available(p, captain) == Options(p, captain, 1)

\* the selections made in the multiselect: none, or a run of the options
Selections(av) ==
    {<<>>} \cup {SubSeq(av, a, b) : a \in 1..Len(av), b \in 1..Len(av)}

\* the "确认组队" button
SubmitTeam ==
    \E captain \in CaptainChoices(players), net \in NetOutcomes :
        \E selected \in Selections(Available(players, captain)) :
            IF Len(selected) > 0
            THEN LET team_members == <<captain>> \o selected
                     r == create_team(players, teams, ghPlayers, ghTeams,
                                      team_members, captain, net)
                 IN  Apply(r, Op("create", team_members, captain, 0, NoTeam,
                                 r.result, r.error, r.badId, r.flush))
            ELSE Apply(Snapshot,
                       Op("submit", <<>>, captain, 0, NoTeam, FALSE,
                          "none_selected", "", "none"))

Init ==
    /\ players = <<>>
    /\ teams = <<>>
    /\ ghPlayers = <<>>
    /\ ghTeams = <<>>
    /\ lastOp = NoOp
    /\ pre = Snapshot
    /\ failures = 0

Next ==
    \/ AddPlayer
    \/ SaveEdit
    \/ ResetSelection
    \/ SubmitTeam
    \/ DisbandTeam

Spec == Init /\ [][Next]_vars

----------------------------------------------------------------------------
(* Properties *)

Failed(flush) == flush \in {"fail_players", "fail_teams"}

\* the rows of p whose id is in ids are flagged v, every other row is as in q
FlagsSetOn(p, q, ids, v) ==
    /\ DOMAIN p = DOMAIN q
    /\ \A i \in DOMAIN p :
        IF q[i].id \in ids
        THEN p[i] = [q[i] EXCEPT !.selected = v]
        ELSE p[i] = q[i]

\* the rule a submission breaks in the state it was made in, earliest first
BrokenRule(before, team_members) ==
    IF Len(team_members) # TeamSize THEN "size"
    ELSE IF \E k \in DOMAIN team_members :
                \A i \in DOMAIN before.players :
                    before.players[i].id # team_members[k] THEN "unknown"
    ELSE IF \E k \in DOMAIN team_members : \E j \in DOMAIN before.teams :
                team_members[k] \in Range(before.teams[j].members) THEN "assigned"
    ELSE ""

\* C1: the member sets of any two distinct teams of the registry are disjoint
C1_TeamsDisjoint ==
    \A i \in DOMAIN teams : \A j \in DOMAIN teams :
        i # j => Range(teams[i].members) \cap Range(teams[j].members) = {}

\* two teams stand in the registry, the second just formed
C1_Witness ==
    /\ Len(teams) = 2
    /\ lastOp.op = "create"
    /\ lastOp.result

\* C2: when the flush fails inside create_team, the team list and every
\* player's selected flag are what they were before the call
C2_RollbackOnSaveFailure ==
    (lastOp.op = "create" /\ Failed(lastOp.flush)) =>
        (teams = pre.teams /\ players = pre.players)

\* C3: after create_team returns True, exactly the submitted team has been
\* appended, every submitted member is flagged selected and every other row
\* of the roster is as before
C3_FormTeamEffect ==
    (lastOp.op = "create" /\ lastOp.result) =>
        /\ teams = Append(pre.teams, [captain |-> lastOp.captain,
                                      members |-> lastOp.members])
        /\ FlagsSetOn(players, pre.players, Range(lastOp.members), TRUE)
        /\ \A k \in DOMAIN lastOp.members :
            \E i \in DOMAIN players :
                players[i].id = lastOp.members[k] /\ players[i].selected

\* a second team was formed while the first team's members stay flagged
C3_Witness ==
    /\ lastOp.op = "create"
    /\ lastOp.result
    /\ Len(pre.teams) = 1
    /\ \E i \in DOMAIN players :
        players[i].selected /\ players[i].id \notin Range(lastOp.members)

\* C4: a submission that breaks a validation rule (size, unknown id, member
\* of an existing team) returns failure, leaves the team list, the roster and
\* the files on GitHub as they were, and attempts no flush
C4_RejectionLeavesState ==
    (lastOp.op = "create" /\ BrokenRule(pre, lastOp.members) # "") =>
        /\ ~lastOp.result
        /\ lastOp.flush = "none"
        /\ teams = pre.teams
        /\ players = pre.players
        /\ ghPlayers = pre.ghPlayers
        /\ ghTeams = pre.ghTeams

\* a submission was rejected while GitHub lags behind the session, so a flush
\* would have shown
C4_Witness ==
    /\ lastOp.op = "create"
    /\ lastOp.error \in {"unknown", "assigned"}
    /\ ghTeams # teams

\* C5: the error reported is that of the earliest broken rule in the order
\* size, existence, disjointness
C5_EarliestRuleReported ==
    lastOp.op = "create" =>
        /\ lastOp.error = BrokenRule(pre, lastOp.members)
        /\ Len(lastOp.members) # TeamSize => lastOp.error = "size"
        /\ (Len(lastOp.members) = TeamSize
            /\ (\E k \in DOMAIN lastOp.members : ~HasId(pre.players, lastOp.members[k])))
           => lastOp.error = "unknown"

\* a submission of six with an unknown id and an already assigned id got the
\* unknown-player error
C5_Witness ==
    /\ lastOp.op = "create"
    /\ lastOp.error = "unknown"
    /\ \E k \in DOMAIN lastOp.members : \E j \in DOMAIN pre.teams :
        lastOp.members[k] \in Range(pre.teams[j].members)

\* C6: disbanding team i removes exactly that team, keeps the other teams in
\* their order, clears the flag of every member of the removed team and
\* leaves every other row as before
C6_DisbandEffect ==
    lastOp.op = "disband" =>
        LET i == lastOp.index
            gone == pre.teams[i]
        IN  /\ i \in DOMAIN pre.teams
            /\ lastOp.removed = gone
            /\ Len(teams) = Len(pre.teams) - 1
            /\ \A k \in DOMAIN teams :
                teams[k] = IF k < i THEN pre.teams[k] ELSE pre.teams[k + 1]
            /\ FlagsSetOn(players, pre.players, Range(gone.members), FALSE)
            /\ Len(pre.teams) = 1 =>
                /\ teams = <<>>
                /\ \A r \in DOMAIN players :
                    players[r].id \in Range(gone.members) => ~players[r].selected

\* the first of two teams was disbanded
C6_Witness ==
    /\ lastOp.op = "disband"
    /\ Len(pre.teams) = 2
    /\ lastOp.index = 1
    /\ \E r \in DOMAIN pre.players :
        pre.players[r].selected /\ ~players[r].selected

\* C7: disbanding a team and forming it again at once with the same captain
\* and members succeeds when the flush does not fail, and every player's
\* selected flag is then what it was before the disband
C7_DisbandThenReform ==
    [][(/\ lastOp.op = "disband"
        /\ lastOp'.op = "create"
        /\ lastOp'.members = lastOp.removed.members
        /\ lastOp'.captain = lastOp.removed.captain
        /\ ~Failed(lastOp'.flush))
       => (/\ lastOp'.result
           /\ DOMAIN players' = DOMAIN pre.players
           /\ \A i \in DOMAIN players' :
               players'[i].selected = pre.players[i].selected)]_vars

\* C8: every team has its captain first, pairwise distinct member ids, and
\* only members that exist in the roster
C8_TeamInvariant ==
    \A j \in DOMAIN teams :
        LET m == teams[j].members
        IN  /\ Len(m) >= 1
            /\ m[1] = teams[j].captain
            /\ \A a \in DOMAIN m : \A b \in DOMAIN m : a # b => m[a] # m[b]
            /\ \A a \in DOMAIN m : \E i \in DOMAIN players : players[i].id = m[a]

\* C9: no two rows of the roster have the same id and no row has an empty id
C9_UniqueNonEmptyIds ==
    /\ \A i \in DOMAIN players : players[i].id # ""
    /\ \A i \in DOMAIN players : \A j \in DOMAIN players :
        i # j => players[i].id # players[j].id

\* C10: a player is flagged selected exactly when its id is in the member
\* list of some team
C10_SelectedIffMember ==
    \A i \in DOMAIN players :
        players[i].selected <=>
            \E j \in DOMAIN teams : players[i].id \in Range(teams[j].members)

\* a team was disbanded with a failed flush while another team stays
C10_Witness ==
    /\ lastOp.op = "disband"
    /\ Failed(lastOp.flush)
    /\ Len(teams) = 1
    /\ \E i \in DOMAIN players : players[i].selected
    /\ \E i \in DOMAIN players : ~players[i].selected

====
